---- MODULE Spec2Model ----
(***************************************************************************)
(* Video analysis service: the job record kept in Redis, the facade        *)
(* handlers that create / read / delete it, the Celery task that drives    *)
(* it, and the circuit breaker + retry layer around the OpenRouter call.   *)
(***************************************************************************)
EXTENDS Integers, Sequences, FiniteSets, TLC

(***************************************************************************)
(* Program constants                                                       *)
(***************************************************************************)
\* OpenRouterClient.__init__: CircuitBreaker(failure_threshold=5, ...)
failure_threshold == 5
\* OpenRouterClient.__init__: CircuitBreaker(recovery_timeout=60, ...), seconds
recovery_timeout == 60
\* CircuitBreaker.__init__ default half_open_max_calls
half_open_max_calls == 1
\* @retry(stop=stop_after_attempt(3))
stop_after_attempt == 3
\* @retry(wait=wait_exponential(multiplier=1, min=2, max=10)), seconds
wait_multiplier == 1
wait_min == 2
wait_max == 10

(***************************************************************************)
(* Bounds of the model                                                     *)
(***************************************************************************)
\* seconds by which the clock read by time.time() advances in one step
TickStep == 30
\* the clock stops advancing here
MaxTime == 150
\* calls admitted to the protected operation over one breaker's life
MaxCalls == 8
\* calls that may be awaiting the protected operation at the same time
MaxInFlight == 2
\* times the dispatcher delivers the task of one job
MaxDeliveries == 2
\* DELETE requests made for one job
MaxCancels == 1
\* jobs one worker process executes, one after the other
MaxJobs == 6

\* last_failure_time: Optional[float] = None
NoTime == -1

(***************************************************************************)
(* Exceptions (app/core/exceptions.py, app/core/circuit_breaker.py)        *)
(***************************************************************************)
\* subclasses of VideoAPIException
VideoAPIException ==
    {"VideoValidationError", "VideoNotFoundError", "UnsupportedFormatError",
     "VideoTooLargeError", "RateLimitError", "VideoProcessingError",
     "OpenRouterAPIError", "ProcessingTimeoutError", "InternalProcessingError"}

\* besides these: "CircuitBreakerError" (CircuitBreakerError(Exception)) and
\* "Exception", any other Exception (ValueError from response.json(),
\* KeyError on a malformed response, ...)

\* the class attribute error_code of each VideoAPIException subclass
error_code(exc) ==
    CASE exc = "VideoValidationError"    -> "INVALID_VIDEO_URL"
      [] exc = "VideoNotFoundError"      -> "VIDEO_NOT_FOUND"
      [] exc = "UnsupportedFormatError"  -> "UNSUPPORTED_FORMAT"
      [] exc = "VideoTooLargeError"      -> "VIDEO_TOO_LARGE"
      [] exc = "RateLimitError"          -> "RATE_LIMIT_EXCEEDED"
      [] exc = "VideoProcessingError"    -> "VIDEO_PROCESSING_ERROR"
      [] exc = "OpenRouterAPIError"      -> "OPENROUTER_API_ERROR"
      [] exc = "ProcessingTimeoutError"  -> "TIMEOUT_ERROR"
      [] OTHER                           -> "INTERNAL_ERROR"

\* the class attribute http_status of each VideoAPIException subclass: 4xx
\* for the classes under "Erros de Cliente", 5xx for those under "Erros de
\* Servidor"; an exception that is no VideoAPIException is stored with
\* INTERNAL_ERROR, the code of the 500 classes
http_status(exc) ==
    CASE exc = "VideoValidationError"    -> 400
      [] exc = "VideoNotFoundError"      -> 404
      [] exc = "UnsupportedFormatError"  -> 400
      [] exc = "VideoTooLargeError"      -> 413
      [] exc = "RateLimitError"          -> 429
      [] exc = "VideoProcessingError"    -> 500
      [] exc = "OpenRouterAPIError"      -> 502
      [] exc = "ProcessingTimeoutError"  -> 504
      [] OTHER                           -> 500

\* expected_exception=OpenRouterAPIError: isinstance(e, OpenRouterAPIError).
\* No other class of the module derives from OpenRouterAPIError.
expected_exception(exc) == exc = "OpenRouterAPIError"

(***************************************************************************)
(* CircuitBreaker                                                          *)
(***************************************************************************)
\* CircuitBreaker.__init__
CircuitBreaker ==
    [failure_count |-> 0, last_failure_time |-> NoTime,
     state |-> "closed", half_open_calls |-> 0]

_should_attempt_reset(b, t) ==
    IF b.state # "open" THEN FALSE
    ELSE IF b.last_failure_time = NoTime THEN FALSE
    ELSE (t - b.last_failure_time) >= recovery_timeout

\* mutation: a success is recorded only while closed
Mut_on_success_ClosedOnly(b) ==
    IF b.state = "closed" THEN [b EXCEPT !.failure_count = 0] ELSE b

\* mutation: a success while closed leaves failure_count as it is
Mut_on_success_NoReset(b) ==
    IF b.state = "half_open"
    THEN [b EXCEPT !.state = "closed", !.failure_count = 0, !.half_open_calls = 0]
    ELSE b

_on_success(b) ==
    IF b.state = "half_open"
    THEN [b EXCEPT !.state = "closed", !.failure_count = 0, !.half_open_calls = 0]
    ELSE IF b.state = "closed"
    THEN [b EXCEPT !.failure_count = 0]
    ELSE b

\* mutation: a failure in half-open re-opens without restarting the cooldown
Mut_on_failure_KeepsFailureTime(b, t) ==
    IF b.state = "half_open"
    THEN [b EXCEPT !.failure_count = @ + 1, !.state = "open",
                   !.half_open_calls = 0]
    ELSE LET c == [b EXCEPT !.failure_count = @ + 1, !.last_failure_time = t]
         IN  IF c.failure_count >= failure_threshold
             THEN [c EXCEPT !.state = "open"]
             ELSE c

\* mutation: a failure in half-open re-opens without clearing half_open_calls
Mut_on_failure_KeepsHalfOpenCalls(b, t) ==
    LET c == [b EXCEPT !.failure_count = @ + 1, !.last_failure_time = t]
    IN  IF c.state = "half_open"
        THEN [c EXCEPT !.state = "open"]
        ELSE IF c.failure_count >= failure_threshold
        THEN [c EXCEPT !.state = "open"]
        ELSE c

\* mutation: the threshold test is > where the code has >=
Mut_on_failure_Gt(b, t) ==
    LET c == [b EXCEPT !.failure_count = @ + 1, !.last_failure_time = t]
    IN  IF c.state = "half_open"
        THEN [c EXCEPT !.state = "open", !.half_open_calls = 0]
        ELSE IF c.failure_count > failure_threshold
        THEN [c EXCEPT !.state = "open"]
        ELSE c

_on_failure(b, t) ==
    LET c == [b EXCEPT !.failure_count = @ + 1, !.last_failure_time = t]
    IN  IF c.state = "half_open"
        THEN [c EXCEPT !.state = "open", !.half_open_calls = 0]
        ELSE IF c.failure_count >= failure_threshold
        THEN [c EXCEPT !.state = "open"]
        ELSE c

\* mutation: the move to half-open also clears failure_count
Mut_AttemptReset_ClearsCount(b, t) ==
    IF _should_attempt_reset(b, t)
    THEN [b EXCEPT !.state = "half_open", !.half_open_calls = 0,
                   !.failure_count = 0]
    ELSE b

\* wrapper, "Verifica se deve tentar recuperar"
AttemptReset(b, t) ==
    IF _should_attempt_reset(b, t)
    THEN [b EXCEPT !.state = "half_open", !.half_open_calls = 0]
    ELSE b

\* mutation: the half-open limit is tested with > where the code has >=
Mut_Rejects_Gt(b) ==
    \/ b.state = "open"
    \/ b.state = "half_open" /\ b.half_open_calls > half_open_max_calls

\* wrapper: the two places that raise CircuitBreakerError
Rejects(b) ==
    \/ b.state = "open"
    \/ b.state = "half_open" /\ b.half_open_calls >= half_open_max_calls

\* wrapper: self.half_open_calls += 1 for a call let through in half-open
Admit(b) ==
    IF b.state = "half_open" THEN [b EXCEPT !.half_open_calls = @ + 1] ELSE b

\* mutation: the except clause catches every exception
Mut_RecordOutcome_AnyException(b, t, res) ==
    IF res = "ok" THEN _on_success(b) ELSE _on_failure(b, t)

\* wrapper: try: result = await func(); self._on_success()
\*          except self.expected_exception: self._on_failure(); raise
\* res is "ok" or the exception func raised
RecordOutcome(b, t, res) ==
    IF res = "ok" THEN _on_success(b)
    ELSE IF expected_exception(res) THEN _on_failure(b, t)
    ELSE b

(***************************************************************************)
(* OpenRouterClient: the retried request inside the breaker-protected call *)
(***************************************************************************)
\* what one execution of the body of _make_request does: "ok" (a response
\* below 400 whose JSON parses) or the exception that leaves the body:
\*   OpenRouterAPIError      status >= 400, or httpx.RequestError
\*   RateLimitError          status 429
\*   ProcessingTimeoutError  httpx.TimeoutException, caught and re-raised
\*   Exception               anything else (response.json() raising)
AttemptResults ==
    {"ok", "OpenRouterAPIError", "RateLimitError", "ProcessingTimeoutError",
     "Exception"}

\* retry_if_exception_type((OpenRouterAPIError, httpx.TimeoutException)).
\* An httpx.TimeoutException never leaves the body of _make_request (it is
\* re-raised as ProcessingTimeoutError, a VideoAPIException), so of the
\* exceptions that leave it only OpenRouterAPIError matches.
retry_if_exception_type(exc) == exc = "OpenRouterAPIError"

\* the scripts of the remote side: what try 1, 2, 3 would do
Scripts == [1..stop_after_attempt -> AttemptResults]

\* tenacity's wait_exponential after failed try number k:
\*   exp = exp_base ** (attempt_number - 1), exp_base = 2
\*   max(max(0, min), min(multiplier * exp, max))
wait_exponential(k) ==
    LET result == wait_multiplier * 2 ^ (k - 1)
        capped == IF result < wait_max THEN result ELSE wait_max
    IN  IF capped > wait_min THEN capped ELSE wait_min

\* mutation: the loop stops one try early
RECURSIVE Mut_RetryFrom_StopEarly(_, _)
Mut_RetryFrom_StopEarly(script, k) ==
    IF script[k] = "ok"
    THEN [res |-> "ok", attempts |-> k, waits |-> << >>]
    ELSE IF retry_if_exception_type(script[k]) /\ k < stop_after_attempt - 1
    THEN LET r == Mut_RetryFrom_StopEarly(script, k + 1)
         IN  [r EXCEPT !.waits = <<wait_exponential(k)>> \o @]
    ELSE [res |-> script[k], attempts |-> k, waits |-> << >>]

\* tenacity's loop from try number k: returns on success, stops after
\* stop_after_attempt tries or on an exception the predicate does not match,
\* and re-raises the last exception (reraise=True); before each further try
\* it sleeps wait_exponential(number of the try that failed). waits lists
\* the sleeps.
RECURSIVE RetryFrom(_, _)
RetryFrom(script, k) ==
    IF script[k] = "ok"
    THEN [res |-> "ok", attempts |-> k, waits |-> << >>]
    ELSE IF retry_if_exception_type(script[k]) /\ k < stop_after_attempt
    THEN LET r == RetryFrom(script, k + 1)
         IN  [r EXCEPT !.waits = <<wait_exponential(k)>> \o @]
    ELSE [res |-> script[k], attempts |-> k, waits |-> << >>]

_make_request(script) == RetryFrom(script, 1)

\* _get_video_as_base64: every failure to download or read the video is
\* raised as OpenRouterAPIError
_get_video_as_base64(video) ==
    IF video = "ok" THEN "ok" ELSE "OpenRouterAPIError"

\* the body of _protected_call: convert the video, then the retried request
_protected_call(video, script) ==
    IF _get_video_as_base64(video) # "ok"
    THEN [res |-> _get_video_as_base64(video), attempts |-> 0, waits |-> << >>]
    ELSE _make_request(script)

\* mutation: the breaker wraps each try instead of the whole retried call, so
\* every try records its own outcome
Mut_analyze_video_PerAttempt(b, t, video, script) ==
    LET r == _protected_call(video, script)
        failed == IF r.res = "ok" THEN r.attempts - 1
                  ELSE IF expected_exception(r.res) THEN r.attempts
                  ELSE r.attempts - 1
    IN  [res |-> r.res, attempts |-> r.attempts, waits |-> r.waits,
         cb |-> [b EXCEPT !.failure_count =
                     IF r.res = "ok" THEN 0 ELSE @ + failed],
         on_success |-> IF r.res = "ok" THEN 1 ELSE 0,
         on_failure |-> IF failed > 0 THEN failed ELSE 0]

\* mutation: the wrapper invokes the function first and looks at the state
\* of the breaker afterwards
Mut_analyze_video_CallThenCheck(b, t, video, script) ==
    LET b1 == AttemptReset(b, t)
        r == _protected_call(video, script)
    IN  IF Rejects(b1)
        THEN [res |-> "CircuitBreakerError", attempts |-> r.attempts,
              waits |-> r.waits, cb |-> b1, on_success |-> 0, on_failure |-> 0]
        ELSE [res |-> r.res, attempts |-> r.attempts, waits |-> r.waits,
              cb |-> RecordOutcome(Admit(b1), t, r.res),
              on_success |-> IF r.res = "ok" THEN 1 ELSE 0,
              on_failure |-> IF r.res # "ok" /\ expected_exception(r.res)
                             THEN 1 ELSE 0]

\* OpenRouterClient.analyze_video: _protected_call under self.circuit_breaker,
\* with breaker b at time t. on_success / on_failure count the calls of
\* CircuitBreaker._on_success / _on_failure the call made.
OpenRouterClient_analyze_video(b, t, video, script) ==
    LET b1 == AttemptReset(b, t)
    IN  IF Rejects(b1)
        THEN [res |-> "CircuitBreakerError", attempts |-> 0, waits |-> << >>,
              cb |-> b1, on_success |-> 0, on_failure |-> 0]
        ELSE LET r == _protected_call(video, script)
             IN  [res |-> r.res, attempts |-> r.attempts, waits |-> r.waits,
                  cb |-> RecordOutcome(Admit(b1), t, r.res),
                  on_success |-> IF r.res = "ok" THEN 1 ELSE 0,
                  on_failure |-> IF r.res # "ok" /\ expected_exception(r.res)
                                 THEN 1 ELSE 0]

(***************************************************************************)
(* The job body (app/workers/tasks.py, _analyze_video_async)               *)
(***************************************************************************)
\* what VideoProcessorService.validate_video does: returns, or raises one of
ValidationResults ==
    {"ok", "VideoValidationError", "UnsupportedFormatError",
     "VideoNotFoundError", "VideoTooLargeError", "VideoProcessingError"}

\* the inputs of one run of the body: the outcome of validation, of reading
\* the video, of each try of the request, and whether the response has the
\* choices[0].message.content the body indexes
BodyInputs ==
    [validation : ValidationResults, video : {"ok", "unreadable"},
     script : Scripts, response : {"ok", "malformed"}]

\* a run of the body that has not happened
NoOut ==
    [kind |-> "none", exc |-> "none", called |-> FALSE, res |-> "none",
     attempts |-> 0, tries |-> << >>, waits |-> << >>, cb |-> CircuitBreaker,
     on_success |-> 0, on_failure |-> 0]

\* mutation: the client is called first and the outcome of validation is
\* looked at afterwards
Mut_analyze_video_async_ValidateLate(in, t) ==
    LET r == OpenRouterClient_analyze_video(CircuitBreaker, t, in.video, in.script)
        o == [NoOut EXCEPT !.res = r.res,
                           !.attempts = r.attempts, !.cb = r.cb,
                           !.on_success = r.on_success,
                           !.on_failure = r.on_failure,
                           !.called = TRUE,
                           !.tries = SubSeq(in.script, 1, r.attempts),
                           !.waits = r.waits]
    IN  IF in.validation # "ok"
        THEN [o EXCEPT !.kind = "error", !.exc = in.validation]
        ELSE IF r.res # "ok"
        THEN [o EXCEPT !.kind = "error", !.exc = r.res]
        ELSE IF in.response # "ok"
        THEN [o EXCEPT !.kind = "error", !.exc = "Exception"]
        ELSE [o EXCEPT !.kind = "result"]

\* _analyze_video_async at time t: validate, extract metadata (never raises),
\* construct an OpenRouterClient (with its own new CircuitBreaker), call it,
\* read the response. kind is "result" when the body returns and "error"
\* when exc leaves it; called tells whether the client was called, res what
\* the client's analyze_video returned ("ok") or raised, tries what each try
\* of the request did, cb the client's breaker after the call.
_analyze_video_async(in, t) ==
    IF in.validation # "ok"
    THEN [NoOut EXCEPT !.kind = "error", !.exc = in.validation]
    ELSE LET r == OpenRouterClient_analyze_video(CircuitBreaker, t, in.video, in.script)
             o == [NoOut EXCEPT !.res = r.res,
                                !.attempts = r.attempts, !.cb = r.cb,
                                !.on_success = r.on_success,
                                !.on_failure = r.on_failure,
                                     !.called = TRUE,
                                !.tries = SubSeq(in.script, 1, r.attempts),
                                !.waits = r.waits]
         IN  IF r.res # "ok"
             THEN [o EXCEPT !.kind = "error", !.exc = r.res]
             ELSE IF in.response # "ok"
             THEN [o EXCEPT !.kind = "error", !.exc = "Exception"]
             ELSE [o EXCEPT !.kind = "result"]

\* inputs that differ only in parts the body never reads give the same run:
\* keep one of each
Canonical(in) ==
    LET o == _analyze_video_async(in, 0)
    IN  /\ \A k \in 1..stop_after_attempt : k > o.attempts => in.script[k] = "ok"
        /\ (in.validation # "ok") => in.video = "ok"
        /\ (o.kind = "error" /\ o.exc # "Exception") => in.response = "ok"
        /\ (o.attempts > 0 /\ in.script[o.attempts] # "ok") => in.response = "ok"

Inputs == {in \in BodyInputs : Canonical(in)}

\* analyze_video's two except clauses: the error_code stored with the error
StoredErrorCode(exc) ==
    IF exc \in VideoAPIException THEN error_code(exc) ELSE "INTERNAL_ERROR"

(***************************************************************************)
(* The job record: the Redis hash at job:{job_id}                          *)
(***************************************************************************)
\* settings.JOB_RESULT_TTL, seconds
JOB_RESULT_TTL == 86400
\* seconds of a record's life that pass in one step of the store's clock
TtlStep == 43200
\* a key without expiry
NoTtl == -1

\* no key: no field, no expiry
Absent ==
    [status |-> "none", result |-> "none", error |-> "none",
     created_at |-> "none", ttl |-> NoTtl]

Exists(r) ==
    r.status # "none" \/ r.result # "none" \/ r.error # "none" \/ r.created_at # "none"

\* mutation: the time to live is set only on a key that has none (EXPIRE NX)
Mut_expire_OnlyIfNone(r) ==
    IF Exists(r) /\ r.ttl = NoTtl THEN [r EXCEPT !.ttl = JOB_RESULT_TTL] ELSE r

\* redis EXPIRE: sets the time to live of an existing key, nothing otherwise
expire(r) == IF Exists(r) THEN [r EXCEPT !.ttl = JOB_RESULT_TTL] ELSE r

(***************************************************************************)
(* The status query (app/api/v1/routes/videos.py, get_analysis_result)     *)
(***************************************************************************)
\* if not job_data: HTTPException(404, "Job {job_id} nao encontrado")
NotFound ==
    [code |-> 404, status |-> "none", result |-> "none",
     completed_at |-> "none", error |-> "none"]

\* mutation: a hash without a status field is answered as not found
Mut_get_analysis_result_StatusRequired(r) ==
    IF r.status = "none" THEN NotFound
    ELSE [code |-> 200,
          status |-> r.status,
          result |-> r.result,
          completed_at |-> IF r.result # "none" THEN "set" ELSE "none",
          error |-> r.error]

\* the response built from hgetall(job:{job_id}) = r: 404 for an empty hash;
\* otherwise status (PENDING when the field is missing), result and
\* completed_at when the hash has a result (the stored result is the dump of
\* a response whose completed_at is set), error when the hash has an error
get_analysis_result(r) ==
    IF ~Exists(r) THEN NotFound
    ELSE [code |-> 200,
          status |-> IF r.status = "none" THEN "pending" ELSE r.status,
          result |-> r.result,
          completed_at |-> IF r.result # "none" THEN "set" ELSE "none",
          error |-> r.error]

(***************************************************************************)
(* State                                                                   *)
(***************************************************************************)
VARIABLES
    \* ---- one CircuitBreaker used for many calls
    cb,           \* the CircuitBreaker instance
    now,          \* time.time()
    inflight,     \* per caller: "idle", or the state the breaker admitted it in
    invocations,  \* times the protected operation was invoked
    last,         \* what the most recent step of a caller did
    streak,       \* qualifying failures recorded since the last recorded success
    \* ---- one job_id
    rec,          \* the Redis hash job:{job_id}
    subPc,        \* where submit_video_analysis is
    canPc,        \* where cancel_analysis is
    cancels,      \* DELETE requests made for the job
    revoked,      \* the dispatcher was told to revoke and terminate the task
    cancelled204, \* a DELETE request returned 204
    ex,           \* per delivery of the task: where analyze_video is, and
                  \* what its body did
    \* ---- one worker process, job after job
    jobNo,        \* jobs submitted so far
    wstreak       \* calls of the worker's jobs that ended in a qualifying
                  \* failure since the last one that returned

brkVars == <<cb, now, inflight, invocations, last, streak>>
jobVars == <<rec, subPc, canPc, cancels, revoked, cancelled204, ex>>
wrkVars == <<jobNo, wstreak>>
vars == <<brkVars, jobVars, wrkVars>>

Callers == 1..MaxInFlight
Deliveries == 1..MaxDeliveries

\* what the protected operation can do: return, raise the qualifying
\* exception, raise another VideoAPIException, raise anything else
OpResults == {"ok", "OpenRouterAPIError", "ProcessingTimeoutError", "Exception"}

InitBreaker ==
    /\ cb = CircuitBreaker
    /\ now = 0
    /\ inflight = [c \in Callers |-> "idle"]
    /\ invocations = 0
    /\ last = [ev |-> "none", res |-> "none", as |-> "none"]
    /\ streak = 0

\* before the POST: no key, no task
InitJob ==
    /\ rec = Absent
    /\ subPc = "idle"
    /\ canPc = "idle"
    /\ cancels = 0
    /\ revoked = FALSE
    /\ cancelled204 = FALSE
    /\ ex = [i \in Deliveries |-> [pc |-> "none", out |-> NoOut]]

InitWorker ==
    /\ jobNo = 1
    /\ wstreak = 0

Init == InitBreaker /\ InitJob /\ InitWorker

(***************************************************************************)
(* One breaker, many calls                                                 *)
(***************************************************************************)
\* the clock advances
BrkTick ==
    /\ now + TickStep <= MaxTime
    /\ now' = now + TickStep
    /\ last' = [ev |-> "tick", res |-> "none", as |-> "none"]
    /\ UNCHANGED <<cb, inflight, invocations, streak, jobVars, wrkVars>>

\* async_wrapper up to the await of func: caller c calls the wrapped function
\* while fewer than limit calls are awaiting it
BrkCall(c, limit) ==
    /\ inflight[c] = "idle"
    /\ Cardinality({d \in Callers : inflight[d] # "idle"}) < limit
    /\ LET b == AttemptReset(cb, now)
       IN  IF Rejects(b)
           THEN /\ cb' = b
                /\ last' = [ev |-> "call", res |-> "CircuitBreakerError", as |-> b.state]
                /\ UNCHANGED <<inflight, invocations>>
           ELSE /\ invocations < MaxCalls
                /\ cb' = Admit(b)
                /\ inflight' = [inflight EXCEPT ![c] = b.state]
                /\ invocations' = invocations + 1
                /\ last' = [ev |-> "call", res |-> "admitted", as |-> b.state]
    /\ UNCHANGED <<now, streak, jobVars, wrkVars>>

\* async_wrapper from the return of the await: func returned or raised res
BrkFinish(c, res) ==
    /\ inflight[c] # "idle"
    /\ cb' = RecordOutcome(cb, now, res)
    /\ inflight' = [inflight EXCEPT ![c] = "idle"]
    /\ last' = [ev |-> "finish", res |-> res, as |-> inflight[c]]
    /\ streak' = IF res = "ok" THEN 0
                 ELSE IF expected_exception(res) THEN streak + 1
                 ELSE streak
    /\ UNCHANGED <<now, invocations, jobVars, wrkVars>>

\* one breaker, each call awaited before the next is made
NextBreaker ==
    \/ BrkTick
    \/ \E c \in Callers : BrkCall(c, 1)
    \/ \E c \in Callers, res \in OpResults : BrkFinish(c, res)

\* one breaker shared by overlapping asynchronous calls
NextBreakerAsync ==
    \/ BrkTick
    \/ \E c \in Callers : BrkCall(c, MaxInFlight)
    \/ \E c \in Callers, res \in OpResults : BrkFinish(c, res)

SpecBreaker == Init /\ [][NextBreaker]_vars
SpecBreakerAsync == Init /\ [][NextBreakerAsync]_vars

(***************************************************************************)
(* One job: facade handlers, dispatcher, task                              *)
(* The Redis commands themselves are taken to succeed; each is one step.   *)
(***************************************************************************)
Running ==
    {"upd_expire", "body", "sr_result", "sr_status", "sr_expire",
     "se_hset", "se_expire"}

\* submit_video_analysis: analyze_video.apply_async(task_id=job_id).
\* The task is in the queue before the record is written.
SubmitEnqueue ==
    /\ subPc = "idle"
    /\ subPc' = "enqueued"
    /\ ex' = [ex EXCEPT ![1].pc = "queued"]
    /\ UNCHANGED <<rec, canPc, cancels, revoked, cancelled204, brkVars, wrkVars>>

\* submit_video_analysis: hset(mapping={status: pending, created_at})
SubmitHset ==
    /\ subPc = "enqueued"
    /\ rec' = [rec EXCEPT !.status = "pending", !.created_at = "set"]
    /\ subPc' = "stored"
    /\ UNCHANGED <<canPc, cancels, revoked, cancelled204, ex, brkVars, wrkVars>>

\* submit_video_analysis: expire, then the 202 response carrying job_id
SubmitExpire ==
    /\ subPc = "stored"
    /\ rec' = expire(rec)
    /\ subPc' = "done"
    /\ UNCHANGED <<canPc, cancels, revoked, cancelled204, ex, brkVars, wrkVars>>

\* the dispatcher delivers the task once more (at-least-once delivery)
Redeliver(i) ==
    /\ i > 1
    /\ ex[i].pc = "none"
    /\ ex[i - 1].pc # "none"
    /\ ex' = [ex EXCEPT ![i].pc = "queued"]
    /\ UNCHANGED <<rec, subPc, canPc, cancels, revoked, cancelled204, brkVars, wrkVars>>

\* _update_job_status(job_id, PROCESSING): hset(status)
UpdateStatusHset(i) ==
    /\ ex[i].pc = "queued"
    /\ rec' = [rec EXCEPT !.status = "processing"]
    /\ ex' = [ex EXCEPT ![i].pc = "upd_expire"]
    /\ UNCHANGED <<subPc, canPc, cancels, revoked, cancelled204, brkVars, wrkVars>>

\* _update_job_status: expire
UpdateStatusExpire(i) ==
    /\ ex[i].pc = "upd_expire"
    /\ rec' = expire(rec)
    /\ ex' = [ex EXCEPT ![i].pc = "body"]
    /\ UNCHANGED <<subPc, canPc, cancels, revoked, cancelled204, brkVars, wrkVars>>

\* analyze_video: run_until_complete(_analyze_video_async(...)); the body
\* touches neither the record nor anything shared with another delivery
Body(i, in) ==
    /\ ex[i].pc = "body"
    /\ LET o == _analyze_video_async(in, now)
       IN  ex' = [ex EXCEPT ![i].out = o,
                            ![i].pc = IF o.kind = "result" THEN "sr_result"
                                      ELSE "se_hset"]
    /\ UNCHANGED <<rec, subPc, canPc, cancels, revoked, cancelled204, brkVars>>

RunBody(i, in) == Body(i, in) /\ UNCHANGED wrkVars

\* _store_result: hset(result)
StoreResultHsetResult(i) ==
    /\ ex[i].pc = "sr_result"
    /\ rec' = [rec EXCEPT !.result = "payload"]
    /\ ex' = [ex EXCEPT ![i].pc = "sr_status"]
    /\ UNCHANGED <<subPc, canPc, cancels, revoked, cancelled204, brkVars, wrkVars>>

\* _store_result: hset(status, completed)
StoreResultHsetStatus(i) ==
    /\ ex[i].pc = "sr_status"
    /\ rec' = [rec EXCEPT !.status = "completed"]
    /\ ex' = [ex EXCEPT ![i].pc = "sr_expire"]
    /\ UNCHANGED <<subPc, canPc, cancels, revoked, cancelled204, brkVars, wrkVars>>

\* _store_result: expire; analyze_video returns
StoreResultExpire(i) ==
    /\ ex[i].pc = "sr_expire"
    /\ rec' = expire(rec)
    /\ ex' = [ex EXCEPT ![i].pc = "done"]
    /\ UNCHANGED <<subPc, canPc, cancels, revoked, cancelled204, brkVars, wrkVars>>

\* _store_error: hset(mapping={status: failed, error, error_code}); the
\* record's error field stands for the pair error / error_code
StoreErrorHset(i) ==
    /\ ex[i].pc = "se_hset"
    /\ rec' = [rec EXCEPT !.status = "failed",
                          !.error = StoredErrorCode(ex[i].out.exc)]
    /\ ex' = [ex EXCEPT ![i].pc = "se_expire"]
    /\ UNCHANGED <<subPc, canPc, cancels, revoked, cancelled204, brkVars, wrkVars>>

\* _store_error: expire; analyze_video returns
StoreErrorExpire(i) ==
    /\ ex[i].pc = "se_expire"
    /\ rec' = expire(rec)
    /\ ex' = [ex EXCEPT ![i].pc = "done"]
    /\ UNCHANGED <<subPc, canPc, cancels, revoked, cancelled204, brkVars, wrkVars>>

\* cancel_analysis: analyze_video.control.revoke(job_id, terminate=True).
\* The client knows job_id from the 202 response.
CancelRevoke ==
    /\ subPc = "done" /\ canPc = "idle" /\ cancels < MaxCancels
    /\ revoked' = TRUE
    /\ canPc' = "delete"
    /\ cancels' = cancels + 1
    /\ UNCHANGED <<rec, subPc, cancelled204, ex, brkVars, wrkVars>>

\* cancel_analysis: the revoke call raises; except Exception -> HTTP 500,
\* the record is not touched
CancelRevokeRaises ==
    /\ subPc = "done" /\ canPc = "idle" /\ cancels < MaxCancels
    /\ cancels' = cancels + 1
    /\ UNCHANGED <<rec, subPc, canPc, revoked, cancelled204, ex, brkVars, wrkVars>>

\* cancel_analysis: redis_client.delete(key), then 204
CancelDelete ==
    /\ canPc = "delete"
    /\ rec' = Absent
    /\ canPc' = "idle"
    /\ cancelled204' = TRUE
    /\ UNCHANGED <<subPc, cancels, revoked, ex, brkVars, wrkVars>>

\* revoke(terminate=True): the worker kills the process running the task
Terminate(i) ==
    /\ revoked
    /\ ex[i].pc \in Running
    /\ ex' = [ex EXCEPT ![i].pc = "killed"]
    /\ UNCHANGED <<rec, subPc, canPc, cancels, revoked, cancelled204, brkVars, wrkVars>>

\* a revoked task that has not started is dropped by the worker
Discard(i) ==
    /\ revoked
    /\ ex[i].pc = "queued"
    /\ ex' = [ex EXCEPT ![i].pc = "discarded"]
    /\ UNCHANGED <<rec, subPc, canPc, cancels, revoked, cancelled204, brkVars, wrkVars>>

\* Redis: time passes for a key with an expiry; at zero the key is gone
StoreAge ==
    /\ Exists(rec) /\ rec.ttl # NoTtl
    /\ rec' = IF rec.ttl - TtlStep <= 0 THEN Absent
              ELSE [rec EXCEPT !.ttl = @ - TtlStep]
    /\ UNCHANGED <<subPc, canPc, cancels, revoked, cancelled204, ex, brkVars, wrkVars>>

Next ==
    \/ SubmitEnqueue
    \/ SubmitHset
    \/ SubmitExpire
    \/ \E i \in Deliveries : Redeliver(i)
    \/ \E i \in Deliveries : UpdateStatusHset(i)
    \/ \E i \in Deliveries : UpdateStatusExpire(i)
    \/ \E i \in Deliveries, in \in Inputs : RunBody(i, in)
    \/ \E i \in Deliveries : StoreResultHsetResult(i)
    \/ \E i \in Deliveries : StoreResultHsetStatus(i)
    \/ \E i \in Deliveries : StoreResultExpire(i)
    \/ \E i \in Deliveries : StoreErrorHset(i)
    \/ \E i \in Deliveries : StoreErrorExpire(i)
    \/ CancelRevoke
    \/ CancelRevokeRaises
    \/ CancelDelete
    \/ \E i \in Deliveries : Terminate(i)
    \/ \E i \in Deliveries : Discard(i)
    \/ StoreAge

Spec == Init /\ [][Next]_vars

\* the task, once started, keeps running, and a handler that has begun
\* finishes; the client's DELETE, the worker's kill, redelivery and the
\* passing of time are under no obligation
TaskStep ==
    \E i \in Deliveries :
        \/ UpdateStatusHset(i)
        \/ UpdateStatusExpire(i)
        \/ \E in \in Inputs : RunBody(i, in)
        \/ StoreResultHsetResult(i)
        \/ StoreResultHsetStatus(i)
        \/ StoreResultExpire(i)
        \/ StoreErrorHset(i)
        \/ StoreErrorExpire(i)

HandlerStep == SubmitHset \/ SubmitExpire \/ CancelDelete

FairSpec == Spec /\ WF_vars(TaskStep) /\ WF_vars(HandlerStep)

(***************************************************************************)
(* One worker process: jobs submitted and executed one after the other,    *)
(* each delivered once, none cancelled                                     *)
(***************************************************************************)
\* the body of the worker's current job; wstreak follows what the breaker
\* of the job's client recorded
WorkerRunBody(in) ==
    /\ Body(1, in)
    /\ LET o == _analyze_video_async(in, now)
       IN  wstreak' = IF o.on_failure > 0 THEN wstreak + o.on_failure
                      ELSE IF o.on_success > 0 THEN 0
                      ELSE wstreak
    /\ UNCHANGED jobNo

\* the next POST: a new uuid4, so a key that does not exist, and a new task
NextJob ==
    /\ subPc = "done" /\ ex[1].pc = "done"
    /\ jobNo < MaxJobs
    /\ jobNo' = jobNo + 1
    /\ rec' = Absent
    /\ subPc' = "idle"
    /\ ex' = [i \in Deliveries |-> [pc |-> "none", out |-> NoOut]]
    /\ UNCHANGED <<canPc, cancels, revoked, cancelled204, wstreak, brkVars>>

NextWorker ==
    \/ SubmitEnqueue
    \/ SubmitHset
    \/ SubmitExpire
    \/ UpdateStatusHset(1)
    \/ UpdateStatusExpire(1)
    \/ \E in \in Inputs : WorkerRunBody(in)
    \/ StoreResultHsetResult(1)
    \/ StoreResultHsetStatus(1)
    \/ StoreResultExpire(1)
    \/ StoreErrorHset(1)
    \/ StoreErrorExpire(1)
    \/ NextJob

SpecWorker == Init /\ [][NextWorker]_vars

(***************************************************************************)
(* One job delivered once, with DELETE requests and the key's expiry       *)
(***************************************************************************)
NextSingle ==
    \/ SubmitEnqueue
    \/ SubmitHset
    \/ SubmitExpire
    \/ UpdateStatusHset(1)
    \/ UpdateStatusExpire(1)
    \/ \E in \in Inputs : RunBody(1, in)
    \/ StoreResultHsetResult(1)
    \/ StoreResultHsetStatus(1)
    \/ StoreResultExpire(1)
    \/ StoreErrorHset(1)
    \/ StoreErrorExpire(1)
    \/ CancelRevoke
    \/ CancelRevokeRaises
    \/ CancelDelete
    \/ Terminate(1)
    \/ Discard(1)
    \/ StoreAge

SpecSingle == Init /\ [][NextSingle]_vars

(***************************************************************************)
(* One OpenRouterClient whose analyze_video is called again and again,     *)
(* each call awaited before the next                                       *)
(***************************************************************************)
\* one call of analyze_video on the client, with its breaker cb, at time now
ClientCall(video, script) ==
    /\ invocations < MaxCalls
    /\ \A c \in Callers : inflight[c] = "idle"
    /\ LET r == OpenRouterClient_analyze_video(cb, now, video, script)
       IN  /\ cb' = r.cb
           /\ invocations' = invocations + r.attempts
           /\ last' = [ev |-> "analyze_video", res |-> r.res,
                       as |-> AttemptReset(cb, now).state, waits |-> r.waits]
           /\ streak' = IF r.on_success > 0 THEN 0 ELSE streak + r.on_failure
    /\ UNCHANGED <<now, inflight, jobVars, wrkVars>>

\* scripts that differ only in tries the request never makes give the same
\* call: keep one of each
ClientScripts ==
    {script \in Scripts :
        \A k \in 1..stop_after_attempt :
            k > _make_request(script).attempts => script[k] = "ok"}

NextClient ==
    \/ BrkTick
    \/ \E video \in {"ok", "unreadable"}, script \in ClientScripts :
           ClientCall(video, script)

SpecClient == Init /\ [][NextClient]_vars

(***************************************************************************)
(* Properties                                                              *)
(***************************************************************************)
Terminal == {"completed", "failed", "cancelled"}

\* the edges of the status table: submit, dispatch-start, success, failure,
\* cancel
ValidEdge(a, b) ==
    \/ a = "none" /\ b = "pending"
    \/ a = "pending" /\ b = "processing"
    \/ a = "processing" /\ b \in {"completed", "failed"}
    \/ a \in {"pending", "processing"} /\ b = "cancelled"

\* delivery i of the task got past _update_job_status
Entered(i) ==
    \/ ex[i].pc \in Running \ {"upd_expire"}
    \/ ex[i].pc = "done"
    \/ ex[i].out.kind # "none"

\* no delivery of the task is queued or running, no handler is in progress
Quiescent ==
    /\ \A i \in Deliveries : ex[i].pc \in {"none", "done", "killed", "discarded"}
    /\ subPc \in {"idle", "done"}
    /\ canPc = "idle"

\* C1: the stored status of a job starts at PENDING and changes only along
\* PENDING->PROCESSING, PROCESSING->COMPLETED, PROCESSING->FAILED and
\* {PENDING,PROCESSING}->CANCELLED; a terminal status is never changed by a
\* write (the key reaching its time to live is not a write).
C1_StatusPath ==
    [][ \/ rec'.status = rec.status
        \/ ValidEdge(rec.status, rec'.status)
        \/ rec' = Absent /\ UNCHANGED <<subPc, canPc, ex>> ]_vars

\* C2: of the deliveries of one job's task at most one gets past the
\* PENDING->PROCESSING step and runs the job body.
C2_OneDeliveryRunsBody ==
    Cardinality({i \in Deliveries : Entered(i)}) <= 1

\* C3: with one delivery of the task and a DELETE racing its success write,
\* once both are over the record does not hold a result under a cancelled or
\* absent status, and it is not COMPLETED if the DELETE returned 204.
C3_CancelSuccessRace ==
    (Quiescent /\ \A i \in Deliveries : i > 1 => ex[i].pc = "none")
        => /\ ~(rec.result # "none" /\ rec.status \in {"none", "cancelled"})
           /\ cancelled204 => rec.status # "completed"

\* the breaker is open and recovery_timeout has not elapsed since the last
\* recorded failure
InCooldown == cb.state = "open" /\ (now - cb.last_failure_time) < recovery_timeout

\* C4: when the failure_threshold-th consecutive qualifying failure is
\* recorded the breaker is OPEN, and from any state in which it is OPEN with
\* less than recovery_timeout elapsed since the last recorded failure, a call
\* is rejected with CircuitBreakerError and no step invokes the protected
\* operation.
C4_OpenRejectsInCooldown ==
    [][ /\ (streak' = streak + 1 /\ streak' >= failure_threshold)
              => cb'.state = "open"
        /\ InCooldown
              => /\ invocations' = invocations
                 /\ (last'.ev = "call" => last'.res = "CircuitBreakerError") ]_vars

\* a call was rejected after threshold failures, some time into the cooldown
C4_Witness ==
    /\ streak >= failure_threshold
    /\ InCooldown
    /\ now > cb.last_failure_time
    /\ last.ev = "call" /\ last.res = "CircuitBreakerError"

C6_RetriedCallIsOneSuccess ==
    \A i \in Deliveries :
        ex[i].out.tries = <<"OpenRouterAPIError", "OpenRouterAPIError", "ok">>
            => /\ ex[i].out.res = "ok"
               /\ ex[i].out.attempts = 3
               /\ ex[i].out.on_success = 1
               /\ ex[i].out.on_failure = 0
               /\ ex[i].out.cb.failure_count = 0
               /\ ex[i].out.cb.state = "closed"

\* a job whose request failed twice and then returned has completed
C6_Witness ==
    /\ ex[1].out.tries = <<"OpenRouterAPIError", "OpenRouterAPIError", "ok">>
    /\ ex[1].out.kind = "result"
    /\ ex[1].pc = "done"
    /\ rec.status = "completed" /\ rec.result # "none"

\* every try of the job's request timed out
AllTimedOut(i) ==
    /\ ex[i].out.called
    /\ ex[i].out.attempts > 0
    /\ \A k \in 1..ex[i].out.attempts :
           ex[i].out.tries[k] = "ProcessingTimeoutError"

\* C7: a job whose request times out on every try has made 3 tries, stores
\* the timeout error code, ends FAILED with it, and its breaker's
\* failure_count went up by exactly 1 (from 0, the client's breaker being new).
C7_TimeoutRetriedAndCounted ==
    \A i \in Deliveries :
        AllTimedOut(i)
            => /\ ex[i].out.attempts = stop_after_attempt
               /\ StoredErrorCode(ex[i].out.exc) = "TIMEOUT_ERROR"
               /\ ex[i].out.cb.failure_count = 1
               /\ ex[i].pc = "done"
                     => rec.status = "failed" /\ rec.error = "TIMEOUT_ERROR"

\* C8: a job executed after failure_threshold consecutive calls of the
\* worker's jobs ended in a qualifying failure (no time having passed since)
\* has its call rejected by the breaker: CircuitBreakerError, no try of the
\* request.
C8_OpenCircuitShortCircuits ==
    [][ ( /\ wstreak >= failure_threshold
          /\ subPc = "done"
          /\ ex[1].pc = "body" /\ ex'[1].pc # "body"
          /\ ex'[1].out.called )
            => /\ ex'[1].out.res = "CircuitBreakerError"
               /\ ex'[1].out.attempts = 0 ]_vars

\* C9: in every state of an existing record, result is present iff the
\* status is COMPLETED, error is present iff the status is FAILED, and the
\* two are never both present.
C9_ResultXorError ==
    Exists(rec)
        => /\ rec.result # "none" <=> rec.status = "completed"
           /\ rec.error # "none" <=> rec.status = "failed"
           /\ ~(rec.result # "none" /\ rec.error # "none")

\* C10: once a delivery of the job's task has started, the record eventually
\* holds a terminal status.
C10_EventuallyTerminal ==
    (\E i \in Deliveries : ex[i].pc \in Running) ~> (rec.status \in Terminal)

\* C11: once a job is submitted and until its task starts, the status query
\* shows PENDING with no result and no error; once the task has run with
\* valid input, the request returning on its first try with a well-formed
\* response, the status query shows COMPLETED with result populated,
\* completed_at set and error absent.
C11_HappyPath ==
    /\ (subPc = "done" /\ ex[1].pc = "queued")
          => get_analysis_result(rec) =
                [code |-> 200, status |-> "pending", result |-> "none",
                 completed_at |-> "none", error |-> "none"]
    /\ (ex[1].pc = "done" /\ ex[1].out.kind = "result" /\ ex[1].out.tries = <<"ok">>)
          => /\ get_analysis_result(rec).code = 200
             /\ get_analysis_result(rec).status = "completed"
             /\ get_analysis_result(rec).result # "none"
             /\ get_analysis_result(rec).completed_at # "none"
             /\ get_analysis_result(rec).error = "none"

\* C12: when validate_video raises, the body ends with that exception
\* without the client having been called (no admission by a breaker, no
\* try of the request), and the task's next write stores FAILED with the
\* exception's error code.
C12_ValidationFailureSkipsRemote ==
    [][ /\ (ex[1].pc = "body" /\ ex'[1].pc # "body")
              => \A in \in Inputs :
                    (in.validation # "ok" /\ WorkerRunBody(in))
                       => /\ ~ex'[1].out.called
                          /\ ex'[1].out.attempts = 0
                          /\ ex'[1].out.on_success = 0
                          /\ ex'[1].out.on_failure = 0
                          /\ ex'[1].out.cb = CircuitBreaker
                          /\ ex'[1].out.exc = in.validation
                          /\ ex'[1].pc = "se_hset"
        /\ (ex[1].pc = "se_hset" /\ ex'[1].pc = "se_expire" /\ ~ex[1].out.called)
              => /\ rec'.status = "failed"
                 /\ rec'.error = StoredErrorCode(ex[1].out.exc) ]_vars

\* a job whose video was too large has ended FAILED without a call
C12_Witness ==
    /\ ex[1].pc = "done"
    /\ ex[1].out.exc = "VideoTooLargeError" /\ ~ex[1].out.called
    /\ ex[1].out.attempts = 0
    /\ rec.status = "failed" /\ rec.error = "VIDEO_TOO_LARGE"

\* C13: when the task of a job first runs the record already holds status
\* PENDING, and the handler's PENDING write lands on a key no task has
\* written to.
C13_PendingBeforeDispatch ==
    [][ /\ (ex[1].pc = "queued" /\ ex'[1].pc = "upd_expire")
              => rec.status = "pending"
        /\ (subPc = "enqueued" /\ subPc' = "stored")
              => ~Exists(rec) ]_vars

\* C14: the DELETE handler's write, landing on a record whose status is
\* PENDING or PROCESSING, leaves the record present with status CANCELLED,
\* and the status query then answers CANCELLED.
C14_CancelWritesCancelled ==
    [][ (canPc = "delete" /\ canPc' = "idle" /\ rec.status \in {"pending", "processing"})
            => /\ Exists(rec')
               /\ rec'.status = "cancelled"
               /\ get_analysis_result(rec').status = "cancelled" ]_vars

\* C15: the DELETE handler's write, landing on a record whose status is
\* COMPLETED or FAILED, changes nothing of the record and the request does
\* not end in 204.
C15_TerminalWinsOverCancel ==
    [][ (canPc = "delete" /\ canPc' = "idle" /\ rec.status \in {"completed", "failed"})
            => /\ rec' = rec
               /\ cancelled204' = cancelled204 ]_vars

\* C16: a step of the task taken while the key of a job whose POST has
\* returned is absent (expired, or deleted by a DELETE) leaves it absent.
C16_NoWriteToAbsentRecord ==
    [][ (subPc = "done" /\ ~Exists(rec) /\ ex'[1].pc # ex[1].pc)
            => ~Exists(rec') ]_vars

\* C17: the status query answers not-found exactly when the key is absent,
\* with one and the same answer whether the key was never written, has
\* expired or was deleted; for every key that exists it answers 200 with a
\* status of JobStatus.
C17_NotFoundIffAbsent ==
    /\ ~Exists(rec) => get_analysis_result(rec) = NotFound
    /\ Exists(rec)
          => /\ get_analysis_result(rec).code = 200
             /\ get_analysis_result(rec).status \in
                    {"pending", "processing", "completed", "failed", "cancelled"}

\* the record of a finished job was deleted and the query answers 404
C17_Witness ==
    /\ cancelled204 /\ ex[1].pc = "done"
    /\ ~Exists(rec)
    /\ get_analysis_result(rec).code = 404

\* C18: a HALF_OPEN episode admits at most half_open_max_calls calls: the
\* count of calls admitted since the breaker became HALF_OPEN never exceeds
\* it (with half_open_max_calls = 1 the admitted call is the one that moved
\* the breaker from OPEN to HALF_OPEN), and a call that finds the breaker
\* HALF_OPEN with the count used up is rejected with CircuitBreakerError
\* without the operation being invoked.
C18_HalfOpenAdmitsAtMostMax ==
    [][ /\ (last'.ev = "call" /\ last'.as = "half_open" /\ last'.res = "admitted")
              => /\ cb'.half_open_calls <= half_open_max_calls
                 /\ cb.state = "open" \/ cb.half_open_calls < half_open_max_calls
        /\ ( /\ last'.ev = "call"
             /\ cb.state = "half_open"
             /\ cb.half_open_calls >= half_open_max_calls )
              => /\ last'.res = "CircuitBreakerError"
                 /\ invocations' = invocations
                 /\ inflight' = inflight
        /\ cb.state = "half_open" => cb.half_open_calls >= 1 ]_vars

\* a second caller was rejected while the probe of the episode is in flight
C18_Witness ==
    /\ last.ev = "call" /\ last.res = "CircuitBreakerError" /\ last.as = "half_open"
    /\ cb.state = "half_open"
    /\ \E c \in Callers : inflight[c] = "half_open"

\* C19: when the protected operation raises an exception that is not of the
\* expected_exception type, the breaker's failure_count, last_failure_time
\* and state are what they were before, and the caller gets that exception.
C19_OnlyQualifyingFailuresCount ==
    [][ ( /\ \E c \in Callers : inflight[c] # "idle" /\ inflight'[c] = "idle"
          /\ last'.res # "ok"
          /\ ~expected_exception(last'.res) )
            => /\ cb'.failure_count = cb.failure_count
               /\ cb'.last_failure_time = cb.last_failure_time
               /\ cb'.state = cb.state
               /\ last'.ev = "finish"
               /\ last'.res \in OpResults \ {"ok", "OpenRouterAPIError"} ]_vars

\* a call timed out on a breaker one failure short of the threshold, and
\* the breaker is still closed with the same count
C19_Witness ==
    /\ last.ev = "finish" /\ last.res = "ProcessingTimeoutError"
    /\ cb.failure_count = failure_threshold - 1
    /\ cb.state = "closed"

\* C20: a call of the client's analyze_video that its breaker admitted and
\* that ended with the qualifying error, all stop_after_attempt tries of
\* the request having failed (or none made, the video being unreadable),
\* leaves failure_count exactly one above what it was.
C20_ExhaustedRetriesCountOnce ==
    [][ (last'.ev = "analyze_video" /\ expected_exception(last'.res))
            => /\ cb'.failure_count = cb.failure_count + 1
               /\ streak' = streak + 1
               /\ invocations' \in {invocations, invocations + stop_after_attempt} ]_vars

\* the second call of a client failed on each of its three tries, the
\* first having failed likewise
C20_Witness ==
    /\ last.ev = "analyze_video" /\ last.res = "OpenRouterAPIError"
    /\ invocations = 2 * stop_after_attempt
    /\ cb.failure_count = 2

\* every try of the job's request was answered with HTTP 429
AllRateLimited(i) ==
    /\ ex[i].out.called
    /\ ex[i].out.attempts > 0
    /\ \A k \in 1..ex[i].out.attempts : ex[i].out.tries[k] = "RateLimitError"

\* C21: a job whose request is answered with HTTP 429 on every try has made
\* stop_after_attempt tries, its breaker's failure_count went up by 1 (from
\* 0, the client's breaker being new), the error it stores belongs to a
\* server-error (5xx) class, and the job ends FAILED.
C21_RateLimitIsDependencyError ==
    \A i \in Deliveries :
        AllRateLimited(i)
            => /\ ex[i].out.attempts = stop_after_attempt
               /\ ex[i].out.cb.failure_count = 1
               /\ http_status(ex[i].out.exc) >= 500
               /\ ex[i].pc = "done" => rec.status = "failed"

\* the input errors: a URL that is not HTTP, an unsupported format, a video
\* that cannot be reached (HEAD fails) or is too large, and a video that
\* passes validation but cannot be downloaded or read
InputError(in) ==
    \/ in.validation \in {"VideoValidationError", "UnsupportedFormatError",
                          "VideoNotFoundError", "VideoTooLargeError"}
    \/ in.validation = "ok" /\ in.video = "unreadable"

\* C22: the body of a job whose input has an input error ends with an
\* exception of a client-error (4xx) class, which the task then stores with
\* FAILED, without the request having been tried more than once, and the
\* breaker's failure_count and state are as they were before the job.
C22_InputErrorsNotCounted ==
    [][ (ex[1].pc = "body" /\ ex'[1].pc # "body")
            => \A in \in Inputs :
                  (InputError(in) /\ WorkerRunBody(in))
                     => /\ ex'[1].out.kind = "error"
                        /\ ex'[1].pc = "se_hset"
                        /\ http_status(ex'[1].out.exc) \in 400..499
                        /\ ex'[1].out.attempts <= 1
                        /\ ex'[1].out.cb.failure_count = CircuitBreaker.failure_count
                        /\ ex'[1].out.cb.state = CircuitBreaker.state
                        /\ wstreak' = wstreak ]_vars

\* C23: a call of the client's analyze_video made while its breaker is OPEN
\* inside the cooldown, or HALF_OPEN with half_open_max_calls calls already
\* admitted, raises CircuitBreakerError; a call that raises it has made no
\* try of the request and slept no backoff, has recorded nothing on the
\* breaker, and the exception is one the task's except clause stores with
\* FAILED (as INTERNAL_ERROR).
C23_RejectionSurfacedImmediately ==
    [][ /\ ( /\ last'.ev = "analyze_video"
             /\ \/ InCooldown
                \/ cb.state = "half_open" /\ cb.half_open_calls >= half_open_max_calls )
              => last'.res = "CircuitBreakerError"
        /\ (last'.ev = "analyze_video" /\ last'.res = "CircuitBreakerError")
              => /\ invocations' = invocations
                 /\ last'.waits = << >>
                 /\ cb'.failure_count = cb.failure_count
                 /\ cb'.last_failure_time = cb.last_failure_time
                 /\ streak' = streak
                 /\ StoredErrorCode(last'.res) = "INTERNAL_ERROR" ]_vars

\* a call was rejected by the breaker that five failed calls had opened
C23_Witness ==
    /\ last.ev = "analyze_video" /\ last.res = "CircuitBreakerError"
    /\ cb.state = "open" /\ cb.failure_count = failure_threshold
    /\ streak = failure_threshold
    /\ invocations >= stop_after_attempt

\* the step ends a status write: the expire of submit_video_analysis,
\* _update_job_status, _store_result or _store_error
WriteEnds ==
    \/ subPc = "stored" /\ subPc' = "done"
    \/ ex[1].pc = "upd_expire" /\ ex'[1].pc = "body"
    \/ ex[1].pc \in {"sr_expire", "se_expire"} /\ ex'[1].pc = "done"

\* C24: every hset of a status is followed, as the next command of its
\* writer, by the expire that ends the write; when a write ends on a record
\* that exists, the record's time to live is the full JOB_RESULT_TTL; and a
\* record whose time to live is the full window does not expire at the next
\* step of the store's clock.
C24_WriteRefreshesTtl ==
    [][ /\ (rec'.status # rec.status /\ Exists(rec'))
              => \/ subPc = "enqueued" /\ subPc' = "stored"
                 \/ ex[1].pc # ex'[1].pc
                      /\ ex'[1].pc \in {"upd_expire", "sr_expire", "se_expire"}
        /\ (WriteEnds /\ Exists(rec)) => rec'.ttl = JOB_RESULT_TTL
        /\ (rec.ttl = JOB_RESULT_TTL /\ Exists(rec) /\ ~Exists(rec'))
              => canPc = "delete" ]_vars

\* the task has ended its last write on the record the POST created, and
\* the record has the full window before it
C24_Witness ==
    /\ subPc = "done" /\ ex[1].pc = "done"
    /\ rec.status \in {"completed", "failed"}
    /\ rec.created_at = "set"
    /\ rec.ttl = JOB_RESULT_TTL
    /\ cancels = 0

\* C25: the breaker is never HALF_OPEN with half_open_max_calls calls
\* admitted and no probe in flight: a probe that returns closes it, a probe
\* that raises, whatever it raises, opens it.
C25_ProbeResolutionLeavesHalfOpen ==
    ~ ( /\ cb.state = "half_open"
        /\ cb.half_open_calls >= half_open_max_calls
        /\ \A c \in Callers : inflight[c] # "half_open" )

\* C26: while the breaker is CLOSED failure_count is the number of
\* qualifying failures recorded since the last recorded success, and it is
\* below failure_threshold; a success recorded while CLOSED sets it to 0;
\* the breaker goes from CLOSED to OPEN only on a qualifying failure that
\* makes that number failure_threshold, and it does go then.
C26_ConsecutiveFailuresOpen ==
    [][ /\ cb.state = "closed"
              => cb.failure_count = streak /\ cb.failure_count < failure_threshold
        /\ (cb.state = "closed" /\ last'.ev = "finish" /\ last'.res = "ok")
              => cb'.failure_count = 0 /\ cb'.state = "closed"
        /\ (cb.state = "closed" /\ cb'.state = "open")
              => /\ last'.ev = "finish" /\ expected_exception(last'.res)
                 /\ streak' = failure_threshold
                 /\ cb'.failure_count = failure_threshold
        /\ ( /\ cb.state = "closed"
             /\ last'.ev = "finish" /\ expected_exception(last'.res)
             /\ streak + 1 = failure_threshold )
              => cb'.state = "open" ]_vars

\* failure_threshold failures in a row, recorded after at least one other
\* call had been made, opened the breaker
C26_Witness ==
    /\ cb.state = "open"
    /\ streak = failure_threshold /\ cb.failure_count = failure_threshold
    /\ invocations > failure_threshold
    /\ last.ev = "finish" /\ last.res = "OpenRouterAPIError"

C28_BackoffDoubles ==
    \A i \in Deliveries :
        \A k \in 1..Len(ex[i].out.waits) :
            ex[i].out.waits[k] =
                IF wait_min * 2 ^ (k - 1) < wait_max
                THEN wait_min * 2 ^ (k - 1)
                ELSE wait_max

\* C29: the breaker a job's call goes through carries what the calls of
\* the worker's earlier jobs recorded: after a call that ends in a
\* qualifying failure its failure_count is the number of such failures in a
\* row over the worker's jobs, and the breaker of a job that follows
\* failure_threshold of them is OPEN.
C29_BreakerSharedAcrossJobs ==
    [][ (ex[1].pc = "body" /\ ex'[1].pc # "body" /\ ex'[1].out.called)
            => /\ ex'[1].out.on_failure > 0
                     => ex'[1].out.cb.failure_count = wstreak'
               /\ wstreak >= failure_threshold
                     => ex'[1].out.cb.state = "open" ]_vars

\* C30: the status query shows completed_at exactly for a record whose
\* status is COMPLETED or FAILED (read while no task is between the two
\* hsets of _store_result).
C30_CompletedAtIffTerminal ==
    (Exists(rec) /\ \A i \in Deliveries : ex[i].pc # "sr_status")
        => ( get_analysis_result(rec).completed_at # "none"
               <=> get_analysis_result(rec).status \in {"completed", "failed"} )

(***************************************************************************)
(* What the circuit-open error carries                                     *)
(***************************************************************************)
\* wrapper, state OPEN: raise CircuitBreakerError(f"... Retry after
\* {self.recovery_timeout}s"): the number of seconds the error names
CircuitBreakerError_retry_after(b) == recovery_timeout

\* C31: the error raised for a call rejected while the breaker is OPEN
\* carries the remaining cooldown: recovery_timeout minus the time elapsed
\* since last_failure_time.
C31_OpenErrorCarriesRemaining ==
    (last.ev = "call" /\ last.res = "CircuitBreakerError" /\ last.as = "open")
        => CircuitBreakerError_retry_after(cb)
              = recovery_timeout - (now - cb.last_failure_time)

\* C32: every job record present in the store carries a finite time to
\* live: once the handlers and the task have finished, whatever the order of
\* the submit, the task's writes, the cancel and writes that re-create the
\* key, no record is left that never expires.
C32_RecordAlwaysExpires ==
    (Quiescent /\ Exists(rec)) => rec.ttl # NoTtl

(***************************************************************************)
(* One invocation of analyze_video against a store whose commands may      *)
(* raise (connection lost, timeout, ...)                                   *)
(***************************************************************************)
StoreResultPcs == {"sr_result", "sr_status", "sr_expire"}
StoreErrorPcs == {"se_hset", "se_expire"}

\* mutation: the three helpers have no try / except of their own: an
\* exception of _update_job_status, called before analyze_video's try,
\* leaves the task; one of _store_result, called inside the try, reaches
\* analyze_video's except Exception; one of _store_error, called in an
\* except clause, leaves the task
Mut_AfterRedisError_Propagates(pc) ==
    IF pc \in StoreResultPcs THEN "se_hset" ELSE "raised"

\* except Exception in _update_job_status, _store_result and _store_error:
\* the exception of a Redis command is logged and the helper returns; where
\* the task is after a command at pc raised
AfterRedisError(pc) ==
    IF pc \in {"queued", "upd_expire"} THEN "body" ELSE "done"

\* the Redis command delivery i is about to issue raises
RedisRaises(i) ==
    /\ ex[i].pc \in {"queued", "upd_expire"} \cup StoreResultPcs \cup StoreErrorPcs
    /\ ex' = [ex EXCEPT ![i].pc = AfterRedisError(ex[i].pc)]
    /\ UNCHANGED <<rec, subPc, canPc, cancels, revoked, cancelled204, brkVars, wrkVars>>

NextTask ==
    \/ SubmitEnqueue
    \/ SubmitHset
    \/ SubmitExpire
    \/ UpdateStatusHset(1)
    \/ UpdateStatusExpire(1)
    \/ \E in \in Inputs : RunBody(1, in)
    \/ StoreResultHsetResult(1)
    \/ StoreResultHsetStatus(1)
    \/ StoreResultExpire(1)
    \/ StoreErrorHset(1)
    \/ StoreErrorExpire(1)
    \/ RedisRaises(1)

SpecTask == Init /\ [][NextTask]_vars

\* C33: an invocation of analyze_video returns normally, no exception leaves
\* it, and it calls exactly one of the two terminal writers: _store_result
\* if and only if the body returned, _store_error if and only if the body
\* raised; it never calls both (a failure inside _store_result does not
\* lead to _store_error) and never returns without having called one.
C33_ExactlyOneTerminalWrite ==
    [][ /\ ex'[1].pc # "raised"
        /\ (ex[1].pc = "body" /\ ex'[1].pc # "body")
              => /\ ex'[1].pc \in {"sr_result", "se_hset"}
                 /\ ex'[1].pc = "sr_result" <=> ex'[1].out.kind = "result"
                 /\ ex'[1].pc = "se_hset" <=> ex'[1].out.kind = "error"
        /\ ex[1].pc \in StoreResultPcs
              => ex'[1].pc \in StoreResultPcs \cup {"done"}
        /\ ex[1].pc \in StoreErrorPcs
              => ex'[1].pc \in StoreErrorPcs \cup {"done"}
        /\ (ex'[1].pc = "done" /\ ex[1].pc # "done")
              => ex[1].pc \in StoreResultPcs \cup StoreErrorPcs
        /\ ex'[1].pc \in StoreResultPcs \cup StoreErrorPcs
              => ex[1].pc \in {"body"} \cup StoreResultPcs \cup StoreErrorPcs
        /\ ex[1].pc = "done" => ex'[1].pc = "done" ]_vars

\* the body returned, _store_result wrote the result, its second command
\* raised, and the task returned without _store_error having written
C33_Witness ==
    /\ ex[1].pc = "done"
    /\ ex[1].out.kind = "result"
    /\ rec.result = "payload"
    /\ rec.status = "processing"
    /\ rec.error = "none"

\* C34: in every state of the breaker: CLOSED implies failure_count is
\* below failure_threshold; OPEN or HALF_OPEN implies failure_count is at
\* least failure_threshold and last_failure_time is set.
C34_StateMatchesCount ==
    /\ cb.state = "closed" => cb.failure_count < failure_threshold
    /\ cb.state \in {"open", "half_open"}
          => /\ cb.failure_count >= failure_threshold
             /\ cb.last_failure_time # NoTime

\* a failed probe re-opened the breaker: the count went past the threshold
C34_Witness ==
    /\ cb.state = "open"
    /\ cb.failure_count > failure_threshold
    /\ last.ev = "finish" /\ last.as = "half_open"
    /\ last.res = "OpenRouterAPIError"

\* C35: half_open_calls is always between 0 and half_open_max_calls, and it
\* is 0 whenever the breaker is CLOSED or OPEN.
C35_HalfOpenCallsBounded ==
    /\ 0 <= cb.half_open_calls
    /\ cb.half_open_calls <= half_open_max_calls
    /\ cb.state \in {"closed", "open"} => cb.half_open_calls = 0

\* a probe was admitted (half_open_calls went to 1) and its success closed
\* the breaker
C35_Witness ==
    /\ cb.state = "closed"
    /\ cb.half_open_calls = 0
    /\ last.ev = "finish" /\ last.as = "half_open" /\ last.res = "ok"

\* C36: with overlapping calls, the calls in flight that the breaker
\* admitted as HALF_OPEN probes never number more than half_open_max_calls,
\* also across successive HALF_OPEN episodes while a call admitted earlier
\* is still running.
C36_InFlightProbesBounded ==
    Cardinality({c \in Callers : inflight[c] = "half_open"}) <= half_open_max_calls

\* C37: the outcome of a call that was admitted while the breaker was
\* CLOSED and completes when the breaker is no longer CLOSED changes no
\* field of the breaker: it neither closes nor re-opens a HALF_OPEN breaker
\* and changes neither failure_count nor last_failure_time of an OPEN one.
C37_StaleOutcomeIgnored ==
    [][ ( /\ cb.state # "closed"
          /\ \E c \in Callers : inflight[c] = "closed" /\ inflight'[c] = "idle" )
            => cb' = cb ]_vars

\* C38: when a probe fails in HALF_OPEN the breaker is OPEN with the
\* cooldown starting at that failure; last_failure_time is always the time
\* of the most recently recorded qualifying failure; the breaker leaves OPEN
\* only through a call made when recovery_timeout or more has elapsed since
\* last_failure_time, and a call made on an OPEN breaker earlier than that
\* is rejected without the operation being invoked.
C38_CooldownFromLastFailure ==
    [][ /\ ( /\ cb.state = "half_open"
             /\ last'.ev = "finish" /\ expected_exception(last'.res)
             /\ \E c \in Callers : inflight[c] = "half_open" /\ inflight'[c] = "idle" )
              => cb'.state = "open" /\ cb'.last_failure_time = now
        /\ ( /\ last'.ev = "finish" /\ expected_exception(last'.res)
             /\ \E c \in Callers : inflight[c] # "idle" /\ inflight'[c] = "idle" )
              => cb'.last_failure_time = now
        /\ cb'.last_failure_time # cb.last_failure_time
              => last'.ev = "finish" /\ expected_exception(last'.res)
        /\ (cb.state = "open" /\ cb'.state # "open")
              => /\ (now - cb.last_failure_time) >= recovery_timeout
                 /\ cb'.state = "half_open"
                 /\ last'.ev = "call" /\ last'.res = "admitted"
        /\ ( /\ cb.state = "open"
             /\ (now - cb.last_failure_time) < recovery_timeout
             /\ last'.ev = "call" )
              => /\ last'.res = "CircuitBreakerError"
                 /\ cb' = cb
                 /\ invocations' = invocations ]_vars

\* a probe failed recovery_timeout or more after the start, and a call made
\* some time into the new cooldown was rejected
C38_Witness ==
    /\ cb.state = "open"
    /\ cb.failure_count > failure_threshold
    /\ cb.last_failure_time >= recovery_timeout
    /\ now > cb.last_failure_time
    /\ (now - cb.last_failure_time) < recovery_timeout
    /\ last.ev = "call" /\ last.res = "CircuitBreakerError" /\ last.as = "open"

(***************************************************************************)
(* The two wrappers of CircuitBreaker.__call__                             *)
(***************************************************************************)
\* what one call through a wrapper gives: the breaker after it, the
\* exception the caller gets ("none" when func's result is returned), the
\* text of a CircuitBreakerError ("open" names recovery_timeout, "half_open"
\* is "Max test calls reached"), and whether func was called
WrapperOutcome(b, error, text, invoked) ==
    [cb |-> b, error |-> error, text |-> text, invoked |-> invoked]

\* async_wrapper called at time t on breaker b, func returning or raising
\* res at time t2 (no other call in between)
async_wrapper(b, t, res, t2) ==
    LET b1 == AttemptReset(b, t)
    IN  IF Rejects(b1)
        THEN WrapperOutcome(b1, "CircuitBreakerError", b1.state, FALSE)
        ELSE WrapperOutcome(RecordOutcome(Admit(b1), t2, res),
                            IF res = "ok" THEN "none" ELSE res, "none", TRUE)

\* mutation: the synchronous wrapper lets every call through in half-open
Mut_sync_wrapper_NoHalfOpenLimit(b, t, res, t2) ==
    LET b1 == IF _should_attempt_reset(b, t)
              THEN [b EXCEPT !.state = "half_open", !.half_open_calls = 0]
              ELSE b
    IN  IF b1.state = "open"
        THEN WrapperOutcome(b1, "CircuitBreakerError", "open", FALSE)
        ELSE LET b2 == IF b1.state = "half_open"
                       THEN [b1 EXCEPT !.half_open_calls = @ + 1]
                       ELSE b1
             IN  IF res = "ok"
                 THEN WrapperOutcome(_on_success(b2), "none", "none", TRUE)
                 ELSE IF expected_exception(res)
                 THEN WrapperOutcome(_on_failure(b2, t2), res, "none", TRUE)
                 ELSE WrapperOutcome(b2, res, "none", TRUE)

\* sync_wrapper called at time t on breaker b, func returning or raising res
\* at time t2
sync_wrapper(b, t, res, t2) ==
    LET b1 == IF _should_attempt_reset(b, t)
              THEN [b EXCEPT !.state = "half_open", !.half_open_calls = 0]
              ELSE b
    IN  IF b1.state = "open"
        THEN WrapperOutcome(b1, "CircuitBreakerError", "open", FALSE)
        ELSE IF b1.state = "half_open" /\ b1.half_open_calls >= half_open_max_calls
        THEN WrapperOutcome(b1, "CircuitBreakerError", "half_open", FALSE)
        ELSE LET b2 == IF b1.state = "half_open"
                       THEN [b1 EXCEPT !.half_open_calls = @ + 1]
                       ELSE b1
             IN  IF res = "ok"
                 THEN WrapperOutcome(_on_success(b2), "none", "none", TRUE)
                 ELSE IF expected_exception(res)
                 THEN WrapperOutcome(_on_failure(b2, t2), res, "none", TRUE)
                 ELSE WrapperOutcome(b2, res, "none", TRUE)

\* how long func may run: not at all on the model's clock, or one step of it
Durations == {0, TickStep}

\* a synchronous function wrapped by the breaker is called while no other
\* call is in flight; it runs for d seconds and returns or raises res
SyncCall(res, d) ==
    /\ \A c \in Callers : inflight[c] = "idle"
    /\ now + d <= MaxTime
    /\ LET r == sync_wrapper(cb, now, res, now + d)
       IN  /\ r.invoked => invocations < MaxCalls
           /\ cb' = r.cb
           /\ now' = IF r.invoked THEN now + d ELSE now
           /\ invocations' = IF r.invoked THEN invocations + 1 ELSE invocations
           /\ last' = [ev |-> "sync_call", res |-> r.error,
                       as |-> AttemptReset(cb, now).state]
           /\ streak' = IF ~r.invoked THEN streak
                        ELSE IF res = "ok" THEN 0
                        ELSE IF expected_exception(res) THEN streak + 1
                        ELSE streak
    /\ UNCHANGED <<inflight, jobVars, wrkVars>>

\* one breaker wrapping a coroutine function and a plain function, each
\* call finished before the next is made
NextWrappers ==
    \/ BrkTick
    \/ \E c \in Callers : BrkCall(c, 1)
    \/ \E c \in Callers, res \in OpResults : BrkFinish(c, res)
    \/ \E res \in OpResults, d \in Durations : SyncCall(res, d)

SpecWrappers == Init /\ [][NextWrappers]_vars

\* C39: in every state of the breaker and for every outcome of the wrapped
\* function (return, qualifying exception, other exception) the synchronous
\* wrapper and the asynchronous wrapper admit or reject alike, raise the
\* same error, and leave the breaker in the same state.
C39_SyncEqualsAsync ==
    \A res \in OpResults, d \in Durations :
        sync_wrapper(cb, now, res, now + d) = async_wrapper(cb, now, res, now + d)

\* a call through the synchronous wrapper was the probe of a HALF_OPEN
\* episode and its qualifying failure re-opened the breaker
C39_Witness ==
    /\ last.ev = "sync_call" /\ last.as = "half_open"
    /\ last.res = "OpenRouterAPIError"
    /\ cb.state = "open"
    /\ cb.failure_count > failure_threshold
    /\ cb.last_failure_time = now

====
